---- MODULE Spec2Model ----
(***************************************************************************)
(* Sheet-music sharing application: the upload page, the music_sheets      *)
(* table, the music-sheets storage bucket and the two conversion services  *)
(* (the Express service and the edge function of conversion-service).      *)
(***************************************************************************)
EXTENDS Integers, Sequences, FiniteSets, TLC

(***************************************************************************)
(* Bounds of the model.                                                    *)
(***************************************************************************)
MaxFiles == 2
MaxRequests == 2
MaxFaults == 1
MaxDeletes == 1
MaxSelections == 2
MaxMeasures == 3
MaxDays == 2

FileIds == 1..MaxFiles
RequestIds == 1..MaxRequests

(***************************************************************************)
(* Program constants.                                                      *)
(***************************************************************************)
MAX_FILE_SIZE == 5 * 1024 * 1024
PageLimit == 10

(***************************************************************************)
(* Storage paths.  A path "u1/1-a.pdf" is the record of its folders, the   *)
(* file name without its extension (the upload time and the name of the    *)
(* uploaded file) and the extension.                                       *)
(***************************************************************************)
Null == "null"
NullPath == [dirs |-> <<>>, base |-> <<>>, ext |-> ""]
UserId == "u1"
\* The uploaded files of the conversion services: 1-a.pdf, 2-a.svg,
\* 3-a.png, then .musicxml files.
BaseOf(id) == <<id, "a">>
ExtOf(id) == IF id = 1 THEN "pdf" ELSE IF id = 2 THEN "svg"
             ELSE IF id = 3 THEN "png" ELSE "musicxml"
Path(dirs, base, ext) == [dirs |-> dirs, base |-> base, ext |-> ext]
SourcePath(id) == Path(<<UserId>>, BaseOf(id), ExtOf(id))

\* supabase.storage.getPublicUrl(key).publicUrl
getPublicUrl(key) == <<"public", key>>
NullUrl == <<"public", NullPath>>

(***************************************************************************)
(* The music_sheets table: one row per file id, or NoRow.                  *)
(***************************************************************************)
NoRow == [deleted |-> TRUE]
DefaultConversionStatus == "pending"
Row(status, err, mei, pub, url) ==
    [conversion_status |-> status, conversion_error |-> err,
     mei_url |-> mei, mei_public_url |-> pub, file_url |-> url]

\* supabase.from('music_sheets').update(fields).eq('id', id): a row that
\* does not exist is not an error, the update changes zero rows.
UpdateRow(t, id, fields) ==
    IF t[id] = NoRow THEN t
    ELSE [t EXCEPT ![id] =
            [f \in DOMAIN t[id] |->
                IF f \in DOMAIN fields THEN fields[f] ELSE t[id][f]]]

DownloadErrorMsg == "Erro ao baixar arquivo"
FsErrorMsg == "fs error"
UnknownErrorMsg == "Erro desconhecido"
UnknownRouteErrorMsg == "Erro desconhecido durante a conversao"
\* error.message || 'Erro desconhecido'
MessageOr(msg, fallback) == IF msg = "" THEN fallback ELSE msg

\* Messages of the errors the storage and the database clients return.
ExternalMessages == {"", "service error"}

VARIABLES
    rows,       \* music_sheets
    store,      \* keys of the objects of the music-sheets bucket
    requests,   \* the HTTP requests to the conversion services
    observed,   \* history: whether each row has been seen as processing
    faults      \* number of failed or unanswered external calls so far

VARIABLES
    page,               \* the revision of the upload page that is mounted
    formData,           \* useState: file, midiFile
    isValidFile,        \* useState: "null", "true" or "false"
    validationMessage,  \* useState
    osmdInstance,       \* useState: whether OpenSheetMusicDisplay was created
    effectsPending,     \* the effects on formData.file have not run yet
    tasks,              \* the asynchronous validations that have not answered
    submit,             \* handleSubmit: its position and the files it took
    selections          \* number of files selected so far

VARIABLES
    call                \* the last application of a function of the program

VARIABLES
    rate_limits,        \* the rate_limits row of one (user_id, action_type)
    accepted,           \* history: rows inserted, by their age in ticks
    playlist_items,     \* the playlist_items rows of one playlist
    sheet_views,        \* the sheet_views rows
    sheet_downloads,    \* the sheet_downloads rows
    counts,             \* music_sheets: views_count and downloads_count
    likes,              \* the likes rows
    favorites,          \* the favorites rows
    now                 \* the clock of the database

VARIABLES
    sheets,             \* keys of the objects of the sheets bucket
    uploading           \* useUpload: the call of uploadFile

upVars == <<page, formData, isValidFile, validationMessage, osmdInstance,
            effectsPending, tasks, submit, selections>>

dbVars == <<rate_limits, accepted, playlist_items, sheet_views,
            sheet_downloads, counts, likes, favorites, now>>

vars == <<rows, store, requests, observed, faults, page, formData, isValidFile,
          validationMessage, osmdInstance, effectsPending, tasks, submit,
          selections, call, rate_limits, accepted, playlist_items,
          sheet_views, sheet_downloads, counts, likes, favorites, now,
          sheets, uploading>>

hookVars == <<sheets, uploading>>

\* useUpload before uploadFile is called.
NoUpload == [pc |-> "idle", file |-> [name |-> "", ext |-> "", size |-> 0],
             result |-> "none"]
HookIdle ==
    /\ sheets = {}
    /\ uploading = NoUpload

\* The database of the social functions before any of them is called.
NoLimit == [count |-> 0]
EmptyDb ==
    /\ rate_limits = NoLimit
    /\ accepted = <<>>
    /\ playlist_items = {}
    /\ sheet_views = {}
    /\ sheet_downloads = {}
    /\ counts = <<>>
    /\ likes = {}
    /\ favorites = {}
    /\ now = 0

NoCall == [fn |-> "none", arg |-> <<>>, result |-> <<>>]

\* The outcomes of an external call (database, storage, file system): it
\* succeeds, or it fails while the bound on failures allows one more.
Oks == IF faults < MaxFaults THEN BOOLEAN ELSE {TRUE}
Fault(failed) == faults' = IF failed THEN faults + 1 ELSE faults
\* The catch that handles an error of the database writes to the database
\* again: the second write may fail as the first did, the two being one
\* failure of the database (database errors are the thrown values that
\* are no instance of Error).
OksAfter(err) == IF err.isError THEN Oks ELSE BOOLEAN

(***************************************************************************)
(* A request to a conversion service and the worker it runs.               *)
(***************************************************************************)
NoResp == [code |-> 0, success |-> FALSE, status |-> "none", sentAt |-> "none",
           hasResults |-> FALSE]
Resp(code, success, status, sentAt, hasResults) ==
    [code |-> code, success |-> success, status |-> status, sentAt |-> sentAt,
     hasResults |-> hasResults]

IdleRequest ==
    [kind |-> "none", pc |-> "idle", fileId |-> 0, filePath |-> NullPath,
     error |-> [msg |-> "", isError |-> FALSE], outcome |-> "none", artifact |-> NullPath,
     files |-> <<>>, results |-> <<>>, resp |-> NoResp,
     fetched |-> <<>>, threw |-> {}]

\* The positions of a worker inside processFile.
RunningPcs == {"update", "download", "upload", "final", "markFailed", "hung"}

Observe(obs, t) ==
    [id \in FileIds |->
        obs[id] \/ (t[id] # NoRow /\ t[id].conversion_status = "processing")]

Upd(rec, fields) ==
    [f \in DOMAIN rec |-> IF f \in DOMAIN fields THEN fields[f] ELSE rec[f]]

\* A request that has ended keeps its answer and what became of its run.
Ended(req) ==
    Upd(req, [pc |-> "done", error |-> IdleRequest.error,
              filePath |-> NullPath, files |-> <<>>])


(***************************************************************************)
(* Pure helpers of the two processFile implementations.                    *)
(***************************************************************************)
\* Express: the extension decides the conversion flow (server.js 169-217).
ExpressSupported(ext) == ext \in {"pdf", "xml", "musicxml", "mxl"}
\* Edge function: the same dispatch with an svg branch (server.js 528-596).
EdgeSupported(ext) == ext \in {"pdf", "xml", "musicxml", "mxl", "svg"}

\* Express: userId = filePath.split('/')[0]; `${userId}/${meiFileName}`.
meiStoragePath(filePath) ==
    Path(<<Head(filePath.dirs)>>, filePath.base, "mei")
\* Edge: userId = filePath.substring(0, filePath.lastIndexOf('/')).
meiFileName(filePath) == Path(filePath.dirs, filePath.base, "mei")

MeiKey(req) ==
    IF req.kind = "express" THEN meiStoragePath(req.filePath)
    ELSE meiFileName(req.filePath)

\* All orders in which the database may return the rows of a set, cut to
\* the page limit (the query has a limit and no ORDER BY).
Min(a, b) == IF a < b THEN a ELSE b
QueryPages(S) ==
    LET n == Min(Cardinality(S), PageLimit)
    IN {q \in [1..n -> S] : \A i, j \in 1..n : i # j => q[i] # q[j]}

\* .eq("conversion_status", "pending")
PendingFiles(t) ==
    {id \in FileIds : t[id] # NoRow /\ t[id].conversion_status = "pending"}


\* A thrown value: its message and whether it is an instance of Error (the
\* errors of the database client are plain objects, the others are Errors).
Err(msg, isError) == [msg |-> msg, isError |-> isError]

\* Express: error.message || 'Erro desconhecido'
ExpressMessage(e) == MessageOr(e.msg, UnknownErrorMsg)
\* Edge: error instanceof Error ? error.message : "Erro desconhecido"
EdgeMessage(e) == IF e.isError THEN e.msg ELSE UnknownErrorMsg

\* The result of the local part of processFile that follows the download:
\* saving the temporary file, the dispatch on the extension and writing the
\* MEI file.  fsOk is whether the file system calls succeed.
ConvertLocal(req, fsOk) ==
    IF ~fsOk THEN Err(FsErrorMsg, TRUE)
    ELSE IF req.kind = "express" /\ ~ExpressSupported(req.filePath.ext)
        THEN Err("Formato nao suportado", TRUE)
    ELSE IF req.kind # "express" /\ ~EdgeSupported(req.filePath.ext)
        THEN Err("Tipo de arquivo nao suportado", TRUE)
    ELSE Err("", FALSE)

\* A loop that stops at the first file whose processing threw.
BatchNextStops(req, result) ==
    LET res == Append(req.results, result)
    IN IF req.files = <<>> \/ ~result.success
        THEN Ended(Upd(req, [results |-> res,
                       resp |-> Resp(200, FALSE, "absent", "finished", TRUE)]))
        ELSE Upd(req, [pc |-> "update", fileId |-> Head(req.files).id,
                       filePath |-> Head(req.files).file_url,
                       files |-> Tail(req.files), results |-> res,
                       outcome |-> "none", artifact |-> NullPath])

\* convert-all: the loop after one file was handled.  It pushes the result
\* and starts processFile on the next fetched file, or answers.
BatchNext(req, result) ==
    LET res == Append(req.results, result)
    IN IF req.files = <<>>
        THEN Ended(Upd(req, [results |-> res,
                       resp |-> Resp(200, FALSE, "absent", "finished", TRUE)]))
        ELSE Upd(req, [pc |-> "update", fileId |-> Head(req.files).id,
                       filePath |-> Head(req.files).file_url,
                       files |-> Tail(req.files), results |-> res,
                       outcome |-> "none", artifact |-> NullPath])

\* processFile threw err: what the caller of processFile does next.
Thrown(req, err) ==
    IF req.kind = "express"
        THEN Upd(req, [pc |-> "convertCatch", error |-> err, outcome |-> "failed"])
    ELSE IF req.kind = "edgeSingle"
        THEN Ended(Upd(req, [outcome |-> "failed",
                       resp |-> Resp(500, FALSE, "absent", "finished", FALSE)]))
    ELSE Upd(req, [pc |-> "batchCatch", error |-> err, outcome |-> "failed",
                   threw |-> req.threw \cup {req.fileId}])

\* processFile returned its result.
Returned(req) ==
    IF req.kind = "express"
        THEN Ended(Upd(req, [outcome |-> "ok"]))
    ELSE IF req.kind = "edgeSingle"
        THEN Ended(Upd(req, [outcome |-> "ok",
                       resp |-> Resp(200, TRUE, "absent", "finished", FALSE)]))
    ELSE BatchNext(Upd(req, [outcome |-> "ok"]),
                   [fileId |-> req.fileId, success |-> TRUE, error |-> Null])


(***************************************************************************)
(* The upload page: Upload.tsx, and its other revision (part_000).         *)
(***************************************************************************)
PageNames == {"Upload.tsx", "part_000"}

NoFile == [name |-> "", ext |-> "", size |-> 0]
UploadExts == {"pdf", "png", "musicxml", "mid"}
Sizes == {MAX_FILE_SIZE, MAX_FILE_SIZE + 1}
Files == {[name |-> "a", ext |-> e, size |-> sz] : e \in UploadExts, sz \in Sizes}

\* file.type, as the browser derives it from the extension
TypeOf(file) ==
    IF file.ext = "pdf" THEN "application/pdf"
    ELSE IF file.ext = "png" THEN "image/png"
    ELSE IF file.ext \in {"jpg", "jpeg"} THEN "image/jpeg"
    ELSE IF file.ext = "svg" THEN "image/svg+xml"
    ELSE IF file.ext \in {"mid", "midi"} THEN "audio/midi"
    ELSE ""
\* file.type.startsWith('image/')
IsImage(file) == TypeOf(file) \in {"image/png", "image/jpeg", "image/svg+xml"}

\* The OCR text is the set of the patterns of isMusicSheetOrTab it matches
\* (the patterns are numbered 1..11 in the order of the list).
NumPatterns == 11
OcrTexts == {{}, {8}, {1, 2}, {8, 10}}
\* Tesseract / pdf.js: a text, or an exception
OcrResults == {[ok |-> TRUE, text |-> t] : t \in OcrTexts}
                \cup {[ok |-> FALSE, text |-> {}]}

isMusicSheetOrTab(text) ==
    Cardinality({i \in 1..NumPatterns : i \in text}) >= 2

MsgUnsupported == "Tipo de arquivo nao suportado."
MsgNotMusic == "Arquivo nao contem notacao musical valida (partitura, cifra ou tablatura)."
MsgOcrError == "Erro ao analisar arquivo: "
MsgValidating == "Validando arquivo..."
MsgValidated == "Arquivo validado como partitura/cifra!"
MsgNotRecognised == "Arquivo nao e uma partitura/cifra reconhecida."
MsgTooLarge == "Arquivo muito grande. O limite e 5MB."
MsgPdfAccepted == "PDF aceito para upload."
MsgPdfAcceptedOsmd == "PDF aceito. Nao e possivel verificar a estrutura interna."
MsgOsmdUnsupported == "Tipo de arquivo nao suportado. Use MusicXML, SVG ou PDF."
MsgAnalysing == "Analisando arquivo..."
MsgAnalysed == "Arquivo analisado e campos preenchidos automaticamente!"
MsgAnalysisInvalid == "Arquivo invalido ou nao suportado."
MsgAnalysisError == "Erro na validacao do arquivo."

\* validateMusicFile: {isScore, error}
validateMusicFile(file, ocr) ==
    IF TypeOf(file) = "application/pdf" \/ IsImage(file)
    THEN IF ~ocr.ok
         THEN [isScore |-> FALSE, error |-> MsgOcrError]
         ELSE [isScore |-> isMusicSheetOrTab(ocr.text),
               error |-> IF isMusicSheetOrTab(ocr.text) THEN "" ELSE MsgNotMusic]
    ELSE [isScore |-> FALSE, error |-> MsgUnsupported]

\* The effect on formData.file that checks the size, and after it the
\* effect that loads the file in OSMD: the pair <<isValidFile,
\* validationMessage>> they leave.
SizeEffect(file, valid, message) ==
    IF file = NoFile THEN <<"null", "">>
    ELSE IF file.size > MAX_FILE_SIZE THEN <<"false", MsgTooLarge>>
    ELSE IF TypeOf(file) = "application/pdf" THEN <<"true", MsgPdfAccepted>>
    ELSE <<valid, message>>

OsmdEffect(file, osmd, valid, message) ==
    IF file = NoFile \/ ~osmd THEN <<valid, message>>
    ELSE IF file.ext \in {"xml", "musicxml", "mxl", "svg"}
        THEN <<valid, message>>     \* the load answers later
    ELSE IF file.ext = "pdf" THEN <<"true", MsgPdfAcceptedOsmd>>
    ELSE <<"false", MsgOsmdUnsupported>>

IdleSubmit == [pc |-> "idle", file |-> NoFile, midiFile |-> NoFile,
               path |-> NullPath]

\* The page after it is mounted.
Mounted ==
    /\ formData = [file |-> NoFile, midiFile |-> NoFile]
    /\ isValidFile = "null"
    /\ validationMessage = ""
    /\ osmdInstance = FALSE
    /\ effectsPending = FALSE
    /\ tasks = {}
    /\ submit = IdleSubmit
    /\ selections = 0

(***************************************************************************)
(* Initial state of the conversion services: every file was uploaded       *)
(* before, its source object is stored and its row is as the upload page   *)
(* left it.                                                                *)
(***************************************************************************)
UploadedRow(url) == Row(DefaultConversionStatus, Null, NullPath, NullUrl, url)

Init ==
    /\ rows = [id \in FileIds |-> UploadedRow(SourcePath(id))]
    /\ store = {SourcePath(id) : id \in FileIds}
    /\ requests = [r \in RequestIds |-> IdleRequest]
    /\ observed = [id \in FileIds |-> FALSE]
    /\ faults = 0
    /\ page = "Upload.tsx"
    /\ Mounted
    /\ call = NoCall
    /\ HookIdle
    /\ EmptyDb

\* Every change of the table is recorded in the history.
SetRows(t) ==
    /\ rows' = t
    /\ observed' = Observe(observed, t)

\* The requests are numbered in the order of their arrival.
Free(r) ==
    /\ requests[r].pc = "idle"
    /\ \A q \in RequestIds : q < r => requests[q].pc # "idle"

\* The file paths a client sends with a file id: the stored source of that
\* file (conversionService.startConversion), or none.
RequestPaths(fileId) ==
    IF fileId \in FileIds THEN {SourcePath(fileId), NullPath} ELSE {NullPath}

(***************************************************************************)
(* Express service: app.post('/convert').                                  *)
(***************************************************************************)
convert_writes_before_check(r) ==
    /\ Free(r)
    /\ \E fileId \in FileIds \cup {0}, dbOk \in Oks, msg \in ExternalMessages,
          fsOk \in Oks :
        \E filePath \in RequestPaths(fileId) :
        LET req == Upd(IdleRequest, [kind |-> "express", fileId |-> fileId,
                                     filePath |-> filePath])
        IN IF fileId = 0 \/ filePath = NullPath
            THEN /\ requests' = [requests EXCEPT ![r] =
                        Ended(Upd(req, [resp |->
                            Resp(400, FALSE, "absent", "rejected", FALSE)]))]
                 /\ SetRows(IF fileId = 0 THEN rows
                            ELSE UpdateRow(rows, fileId,
                                    [conversion_status |-> "processing"]))
                 /\ UNCHANGED <<store, faults>>
            ELSE IF ~dbOk
            THEN \* updateError is thrown to the catch of the route
                 /\ requests' = [requests EXCEPT ![r] =
                        Ended(Upd(req, [resp |->
                            Resp(500, FALSE, "absent", "rejected", FALSE)]))]
                 /\ Fault(TRUE)
                 /\ UNCHANGED <<rows, store, observed>>
            ELSE \* status written, processFile started, answer sent
                 /\ SetRows(UpdateRow(rows, fileId,
                                      [conversion_status |-> "processing"]))
                 /\ requests' = [requests EXCEPT ![r] =
                        Upd(IF fsOk THEN Upd(req, [pc |-> "download"])
                            ELSE Upd(req, [pc |-> "markFailed",
                                           error |-> Err(FsErrorMsg, TRUE)]),
                            [resp |-> Resp(200, TRUE, "processing", "started", FALSE)])]
                 /\ Fault(~fsOk)
                 /\ UNCHANGED store
    /\ UNCHANGED upVars
    /\ UNCHANGED call
    /\ UNCHANGED dbVars
    /\ UNCHANGED hookVars

convert(r) ==
    /\ Free(r)
    /\ \E fileId \in FileIds \cup {0}, dbOk \in Oks, msg \in ExternalMessages,
          fsOk \in Oks :
        \E filePath \in RequestPaths(fileId) :
        LET req == Upd(IdleRequest, [kind |-> "express", fileId |-> fileId,
                                     filePath |-> filePath])
        IN IF fileId = 0 \/ filePath = NullPath
            THEN /\ requests' = [requests EXCEPT ![r] =
                        Ended(Upd(req, [resp |->
                            Resp(400, FALSE, "absent", "rejected", FALSE)]))]
                 /\ UNCHANGED <<rows, store, observed, faults>>
            ELSE IF ~dbOk
            THEN \* updateError is thrown to the catch of the route
                 /\ requests' = [requests EXCEPT ![r] =
                        Ended(Upd(req, [resp |->
                            Resp(500, FALSE, "absent", "rejected", FALSE)]))]
                 /\ Fault(TRUE)
                 /\ UNCHANGED <<rows, store, observed>>
            ELSE \* status written, processFile started, answer sent
                 /\ SetRows(UpdateRow(rows, fileId,
                                      [conversion_status |-> "processing"]))
                 /\ requests' = [requests EXCEPT ![r] =
                        Upd(IF fsOk THEN Upd(req, [pc |-> "download"])
                            ELSE Upd(req, [pc |-> "markFailed",
                                           error |-> Err(FsErrorMsg, TRUE)]),
                            [resp |-> Resp(200, TRUE, "processing", "started", FALSE)])]
                 /\ Fault(~fsOk)
                 /\ UNCHANGED store
    /\ UNCHANGED upVars
    /\ UNCHANGED call
    /\ UNCHANGED dbVars
    /\ UNCHANGED hookVars

(***************************************************************************)
(* Edge function: serve, single-file branch and convert-all branch.        *)
(***************************************************************************)
serve_single(r) ==
    /\ Free(r)
    /\ \E fileId \in FileIds \cup {0} : \E filePath \in RequestPaths(fileId) :
        LET req == Upd(IdleRequest, [kind |-> "edgeSingle", fileId |-> fileId,
                                     filePath |-> filePath])
        IN requests' = [requests EXCEPT ![r] =
            IF fileId = 0 \/ filePath = NullPath
            THEN Ended(Upd(req, [resp |->
                    Resp(400, FALSE, "absent", "rejected", FALSE)]))
            ELSE Upd(req, [pc |-> "update"])]
    /\ UNCHANGED <<rows, store, observed, faults>>
    /\ UNCHANGED upVars
    /\ UNCHANGED call
    /\ UNCHANGED dbVars
    /\ UNCHANGED hookVars

serve_convert_all(r) ==
    /\ Free(r)
    /\ \E dbOk \in Oks, fetched \in QueryPages(PendingFiles(rows)) :
        LET req == Upd(IdleRequest, [kind |-> "edgeBatch"])
            pendingFiles == [i \in DOMAIN fetched |->
                                [id |-> fetched[i],
                                 file_url |-> rows[fetched[i]].file_url]]
        IN /\ requests' = [requests EXCEPT ![r] =
                IF ~dbOk
                THEN Ended(Upd(req, [resp |->
                        Resp(500, FALSE, "absent", "rejected", FALSE)]))
                ELSE IF pendingFiles = <<>>
                THEN Ended(Upd(req, [resp |->
                        Resp(200, FALSE, "absent", "finished", FALSE)]))
                ELSE Upd(req, [pc |-> "update", fileId |-> pendingFiles[1].id,
                               filePath |-> pendingFiles[1].file_url,
                               files |-> Tail(pendingFiles),
                               fetched |-> fetched])]
           /\ Fault(~dbOk)
    /\ UNCHANGED <<rows, store, observed>>
    /\ UNCHANGED upVars
    /\ UNCHANGED call
    /\ UNCHANGED dbVars
    /\ UNCHANGED hookVars

(***************************************************************************)
(* processFile, both implementations.  Each action is one awaited call     *)
(* and the code that runs until the next one.                              *)
(***************************************************************************)
\* Edge: the status write at the start of processFile, outside its try.
processFile_update(r) ==
    /\ requests[r].pc = "update"
    /\ \E dbOk \in Oks, msg \in ExternalMessages :
        /\ IF dbOk
           THEN /\ SetRows(UpdateRow(rows, requests[r].fileId,
                                     [conversion_status |-> "processing"]))
                /\ requests' = [requests EXCEPT ![r] = Upd(@, [pc |-> "download"])]
           ELSE /\ requests' = [requests EXCEPT ![r] = Thrown(@, Err(msg, FALSE))]
                /\ UNCHANGED <<rows, observed>>
        /\ Fault(~dbOk)
    /\ UNCHANGED store
    /\ UNCHANGED upVars
    /\ UNCHANGED call
    /\ UNCHANGED dbVars
    /\ UNCHANGED hookVars

\* storage.download, then the local conversion up to the MEI file.
processFile_download(r) ==
    /\ requests[r].pc = "download"
    /\ \E storageOk \in Oks, fsOk \in Oks :
        LET req == requests[r]
            local == ConvertLocal(req, fsOk)
        IN /\ requests' = [requests EXCEPT ![r] =
                IF ~storageOk \/ req.filePath \notin store
                THEN Upd(req, [pc |-> "markFailed",
                               error |-> Err(DownloadErrorMsg, TRUE)])
                ELSE IF local # Err("", FALSE)
                THEN Upd(req, [pc |-> "markFailed", error |-> local])
                ELSE Upd(req, [pc |-> "upload"])]
           /\ Fault(~storageOk \/ ~fsOk)
    /\ UNCHANGED <<rows, store, observed>>
    /\ UNCHANGED upVars
    /\ UNCHANGED call
    /\ UNCHANGED dbVars
    /\ UNCHANGED hookVars

\* storage.upload of the MEI file (no upsert: an existing object is an error).
processFile_upload(r) ==
    /\ requests[r].pc = "upload"
    /\ \E storageOk \in Oks, msg \in ExternalMessages :
        LET req == requests[r]
            key == MeiKey(req)
        IN /\ IF storageOk /\ key \notin store
              THEN /\ store' = store \cup {key}
                   /\ requests' = [requests EXCEPT ![r] =
                          Upd(req, [pc |-> "final", artifact |-> key])]
              ELSE /\ requests' = [requests EXCEPT ![r] =
                          Upd(req, [pc |-> "markFailed",
                                    error |-> Err(msg, TRUE)])]
                   /\ UNCHANGED store
           /\ Fault(~storageOk)
    /\ UNCHANGED <<rows, observed>>
    /\ UNCHANGED upVars
    /\ UNCHANGED call
    /\ UNCHANGED dbVars
    /\ UNCHANGED hookVars

\* The final update of the row, then the removal of the temporary files.
processFile_final(r) ==
    /\ requests[r].pc = "final"
    /\ \E dbOk \in Oks, msg \in ExternalMessages, fsOk \in Oks :
        LET req == requests[r]
            key == MeiKey(req)
        IN /\ IF ~dbOk
              THEN /\ requests' = [requests EXCEPT ![r] =
                          Upd(req, [pc |-> "markFailed",
                                    error |-> Err(msg, FALSE)])]
                   /\ UNCHANGED <<rows, observed>>
              ELSE /\ SetRows(UpdateRow(rows, req.fileId,
                          [conversion_status |-> "completed", mei_url |-> key,
                           mei_public_url |-> getPublicUrl(key)]))
                   /\ requests' = [requests EXCEPT ![r] =
                          IF ~fsOk /\ req.kind = "express"
                          THEN \* fs.rmSync throws inside the try
                               Upd(req, [pc |-> "markFailed",
                                         error |-> Err(FsErrorMsg, TRUE)])
                          ELSE \* Deno.remove is in its own try
                               Returned(req)]
           /\ Fault(~dbOk \/ ~fsOk)
    /\ UNCHANGED store
    /\ UNCHANGED upVars
    /\ UNCHANGED call
    /\ UNCHANGED dbVars
    /\ UNCHANGED hookVars

\* The catch of processFile: the row is written as failed (the result of
\* that write is not looked at) and the error is thrown again.
processFile_catch(r) ==
    /\ requests[r].pc = "markFailed"
    /\ \E dbOk \in OksAfter(requests[r].error) :
        LET req == requests[r]
            message == IF req.kind = "express" THEN ExpressMessage(req.error)
                       ELSE EdgeMessage(req.error)
        IN /\ IF dbOk
              THEN SetRows(UpdateRow(rows, req.fileId,
                        [conversion_status |-> "failed",
                         conversion_error |-> message]))
              ELSE UNCHANGED <<rows, observed>>
           /\ requests' = [requests EXCEPT ![r] = Thrown(req, req.error)]
           /\ Fault(~dbOk /\ requests[r].error.isError)
    /\ UNCHANGED store
    /\ UNCHANGED upVars
    /\ UNCHANGED call
    /\ UNCHANGED dbVars
    /\ UNCHANGED hookVars

\* Express: the .catch of the route writes the row as failed again.
convert_catch(r) ==
    /\ requests[r].pc = "convertCatch"
    /\ \E dbOk \in OksAfter(requests[r].error) :
        /\ IF dbOk
           THEN SetRows(UpdateRow(rows, requests[r].fileId,
                    [conversion_status |-> "failed",
                     conversion_error |->
                        MessageOr(requests[r].error.msg, UnknownRouteErrorMsg)]))
           ELSE UNCHANGED <<rows, observed>>
        /\ requests' = [requests EXCEPT ![r] = Ended(@)]
        /\ Fault(~dbOk /\ requests[r].error.isError)
    /\ UNCHANGED store
    /\ UNCHANGED upVars
    /\ UNCHANGED call
    /\ UNCHANGED dbVars
    /\ UNCHANGED hookVars

\* Edge: the catch of the convert-all loop pushes the failure, writes the
\* row as failed and goes on with the next file.
serve_catch(r) ==
    /\ requests[r].pc = "batchCatch"
    /\ \E dbOk \in OksAfter(requests[r].error) :
        LET req == requests[r]
            message == EdgeMessage(req.error)
        IN /\ IF dbOk
              THEN SetRows(UpdateRow(rows, req.fileId,
                        [conversion_status |-> "failed",
                         conversion_error |-> message]))
              ELSE UNCHANGED <<rows, observed>>
           /\ requests' = [requests EXCEPT ![r] =
                    BatchNext(req, [fileId |-> req.fileId, success |-> FALSE,
                                    error |-> message])]
           /\ Fault(~dbOk /\ requests[r].error.isError)
    /\ UNCHANGED store
    /\ UNCHANGED upVars
    /\ UNCHANGED call
    /\ UNCHANGED dbVars
    /\ UNCHANGED hookVars

(***************************************************************************)
(* Library page: handleDeleteSheet.                                        *)
(***************************************************************************)
handleDeleteSheet ==
    /\ \E deleteId \in FileIds :
        /\ rows[deleteId] # NoRow
        /\ Cardinality({id \in FileIds : rows[id] = NoRow}) < MaxDeletes
        /\ SetRows([rows EXCEPT ![deleteId] = NoRow])
    /\ UNCHANGED <<store, requests, faults>>
    /\ UNCHANGED upVars
    /\ UNCHANGED call
    /\ UNCHANGED dbVars
    /\ UNCHANGED hookVars

(***************************************************************************)
(* None of the awaited calls has a timeout: a call that never answers      *)
(* leaves its worker where it is.                                          *)
(***************************************************************************)
AwaitPcs == {"download", "upload"}

NeverAnswers(r) ==
    /\ requests[r].pc \in AwaitPcs
    /\ faults < MaxFaults
    /\ requests' = [requests EXCEPT ![r] =
            Upd(@, [pc |-> "hung", files |-> <<>>])]
    /\ Fault(TRUE)
    /\ UNCHANGED <<rows, store, observed>>
    /\ UNCHANGED upVars
    /\ UNCHANGED call
    /\ UNCHANGED dbVars
    /\ UNCHANGED hookVars

Step(r) ==
    \/ processFile_update(r)
    \/ processFile_download(r)
    \/ processFile_upload(r)
    \/ processFile_final(r)
    \/ processFile_catch(r)
    \/ convert_catch(r)
    \/ serve_catch(r)

Next ==
    \/ \E r \in RequestIds : convert(r)
    \/ \E r \in RequestIds : serve_single(r)
    \/ \E r \in RequestIds : serve_convert_all(r)
    \/ \E r \in RequestIds : Step(r)
    \/ \E r \in RequestIds : NeverAnswers(r)
    \/ handleDeleteSheet

Spec == Init /\ [][Next]_vars

FairSpec == Spec /\ \A r \in RequestIds : WF_vars(Step(r))


(***************************************************************************)
(* The upload page.                                                        *)
(***************************************************************************)
InitUpload ==
    /\ rows = [id \in FileIds |-> NoRow]
    /\ store = {}
    /\ requests = [r \in RequestIds |-> IdleRequest]
    /\ observed = [id \in FileIds |-> FALSE]
    /\ faults = 0
    /\ page \in PageNames
    /\ Mounted
    /\ call = NoCall
    /\ HookIdle
    /\ EmptyDb

\* Upload.tsx: handleFileChange up to its await of validateMusicFile (the
\* fileType parameter is not looked at).
handleFileChange ==
    /\ page = "Upload.tsx"
    /\ selections < MaxSelections
    /\ \E selectedFile \in Files :
        /\ formData' = [formData EXCEPT !.file = selectedFile]
        /\ tasks' = tasks \cup {[task |-> "validation", file |-> selectedFile]}
    /\ isValidFile' = "null"
    /\ validationMessage' = MsgValidating
    /\ effectsPending' = TRUE
    /\ selections' = selections + 1
    /\ UNCHANGED <<page, osmdInstance, submit, rows, store, requests, observed,
                   faults>>
    /\ UNCHANGED call
    /\ UNCHANGED dbVars
    /\ UNCHANGED hookVars

\* Upload.tsx: handleFileChange after validateMusicFile answered.
handleFileChange_validated ==
    /\ \E t \in tasks, ocr \in OcrResults :
        /\ t.task = "validation"
        /\ LET validationResult == validateMusicFile(t.file, ocr)
           IN IF validationResult.isScore
              THEN /\ isValidFile' = "true"
                   /\ validationMessage' = MsgValidated
              ELSE /\ isValidFile' = "false"
                   /\ validationMessage' =
                        MessageOr(validationResult.error, MsgNotRecognised)
        /\ tasks' = tasks \ {t}
    /\ UNCHANGED <<page, formData, osmdInstance, effectsPending, submit,
                   selections, rows, store, requests, observed, faults>>
    /\ UNCHANGED call
    /\ UNCHANGED dbVars
    /\ UNCHANGED hookVars

\* part_000: the extensions handleFileChange accepts for a sheet
validFileTypes == {"xml", "musicxml", "mxl", "svg", "pdf", "mid", "midi"}

\* part_000: handleFileChange up to its await of the analysis service.
handleFileChange_part000 ==
    /\ page = "part_000"
    /\ selections < MaxSelections
    /\ selections' = selections + 1
    /\ \E selectedFile \in Files, fileType \in {"sheet", "midi"} :
        IF fileType = "sheet"
        THEN IF selectedFile.ext \notin validFileTypes
                  \/ selectedFile.size > MAX_FILE_SIZE
             THEN UNCHANGED <<formData, isValidFile, validationMessage, tasks>>
             ELSE /\ isValidFile' = "null"
                  /\ validationMessage' = MsgAnalysing
                  /\ tasks' = tasks \cup
                        {[task |-> "analysis", file |-> selectedFile]}
                  /\ UNCHANGED formData
        ELSE IF selectedFile.size > MAX_FILE_SIZE
             THEN UNCHANGED <<formData, isValidFile, validationMessage, tasks>>
             ELSE /\ formData' = [formData EXCEPT !.midiFile = selectedFile]
                  /\ UNCHANGED <<isValidFile, validationMessage, tasks>>
    /\ UNCHANGED <<page, osmdInstance, effectsPending, submit, rows, store,
                   requests, observed, faults>>
    /\ UNCHANGED call
    /\ UNCHANGED dbVars
    /\ UNCHANGED hookVars

\* part_000: handleFileChange after the analysis service answered
\* (response ok, response not ok, or an exception).
handleFileChange_analysed ==
    /\ \E t \in tasks, analysis \in {"ok", "invalid", "throws"} :
        /\ t.task = "analysis"
        /\ tasks' = tasks \ {t}
        /\ IF analysis = "ok"
           THEN /\ formData' = [formData EXCEPT !.file = t.file]
                /\ isValidFile' = "true"
                /\ validationMessage' = MsgAnalysed
                /\ effectsPending' = TRUE
           ELSE /\ isValidFile' = "false"
                /\ validationMessage' = IF analysis = "invalid"
                        THEN MsgAnalysisInvalid ELSE MsgAnalysisError
                /\ UNCHANGED <<formData, effectsPending>>
    /\ UNCHANGED <<page, osmdInstance, submit, selections, rows, store,
                   requests, observed, faults>>
    /\ UNCHANGED call
    /\ UNCHANGED dbVars
    /\ UNCHANGED hookVars

\* Both revisions: the effects on formData.file, in the order of their
\* declaration.  (osmdInstance is created by an effect that runs when the
\* page is mounted, before the element of osmdRef exists.)
useEffect_file ==
    /\ effectsPending
    /\ effectsPending' = FALSE
    /\ LET a == SizeEffect(formData.file, isValidFile, validationMessage)
           b == OsmdEffect(formData.file, osmdInstance, a[1], a[2])
       IN /\ isValidFile' = b[1]
          /\ validationMessage' = b[2]
    /\ UNCHANGED <<page, formData, osmdInstance, tasks, submit, selections,
                   rows, store, requests, observed, faults>>
    /\ UNCHANGED call
    /\ UNCHANGED dbVars
    /\ UNCHANGED hookVars

removeFile ==
    /\ \E fileType \in {"sheet", "midi"} :
        IF fileType = "sheet"
        THEN /\ formData.file # NoFile
             /\ formData' = [formData EXCEPT !.file = NoFile]
             /\ isValidFile' = "null"
             /\ validationMessage' = ""
             /\ effectsPending' = TRUE
        ELSE /\ formData.midiFile # NoFile
             /\ formData' = [formData EXCEPT !.midiFile = NoFile]
             /\ UNCHANGED <<isValidFile, validationMessage, effectsPending>>
    /\ UNCHANGED <<page, osmdInstance, tasks, submit, selections, rows, store,
                   requests, observed, faults>>
    /\ UNCHANGED call
    /\ UNCHANGED dbVars
    /\ UNCHANGED hookVars

\* useState loading
Loading == submit.pc \in {"upload", "midi", "insert"}

\* The disabled attribute of the submit button, in each revision.
ButtonEnabled ==
    /\ ~Loading
    /\ formData.file # NoFile
    /\ IF page = "Upload.tsx" THEN isValidFile = "true"
       ELSE ~(isValidFile # "true"
                /\ TypeOf(formData.file) # "application/pdf")

\* Date.now(): a new value for every stored object
Now == Cardinality(store) + 1
StoredPath(file) == Path(<<UserId>>, <<Now, file.name>>, file.ext)

\* handleSubmit up to the upload of the sheet file.
handleSubmit ==
    /\ submit.pc = "idle"
    /\ ButtonEnabled
    /\ \E id \in FileIds : rows[id] = NoRow
    /\ IF formData.file = NoFile \/ isValidFile = "false"
       THEN UNCHANGED submit
       ELSE submit' = [pc |-> "upload", file |-> formData.file,
                       midiFile |-> formData.midiFile, path |-> NullPath]
    /\ UNCHANGED <<page, formData, isValidFile, validationMessage,
                   osmdInstance, effectsPending, tasks, selections, rows,
                   store, requests, observed, faults>>
    /\ UNCHANGED call
    /\ UNCHANGED dbVars
    /\ UNCHANGED hookVars

\* storage.upload of the sheet file answered.
handleSubmit_upload ==
    /\ submit.pc = "upload"
    /\ \E storageOk \in Oks :
        LET filePath == StoredPath(submit.file)
        IN /\ IF storageOk /\ filePath \notin store
              THEN /\ store' = store \cup {filePath}
                   /\ submit' = [submit EXCEPT
                        !.pc = IF submit.midiFile # NoFile THEN "midi"
                               ELSE "insert",
                        !.path = filePath]
              ELSE /\ submit' = IdleSubmit
                   /\ UNCHANGED store
           /\ Fault(~storageOk)
    /\ UNCHANGED <<page, formData, isValidFile, validationMessage,
                   osmdInstance, effectsPending, tasks, selections, rows,
                   requests, observed>>
    /\ UNCHANGED call
    /\ UNCHANGED dbVars
    /\ UNCHANGED hookVars

\* storage.upload of the MIDI file answered.
handleSubmit_midi ==
    /\ submit.pc = "midi"
    /\ \E storageOk \in Oks :
        LET midiFilePath == StoredPath(submit.midiFile)
        IN /\ IF storageOk /\ midiFilePath \notin store
              THEN /\ store' = store \cup {midiFilePath}
                   /\ submit' = [submit EXCEPT !.pc = "insert"]
              ELSE /\ submit' = IdleSubmit
                   /\ UNCHANGED store
           /\ Fault(~storageOk)
    /\ UNCHANGED <<page, formData, isValidFile, validationMessage,
                   osmdInstance, effectsPending, tasks, selections, rows,
                   requests, observed>>
    /\ UNCHANGED call
    /\ UNCHANGED dbVars
    /\ UNCHANGED hookVars

\* The conversion_status of the row handleSubmit inserts: part_000 sets
\* it, Upload.tsx leaves it to the default of the column.
InsertedStatus(p) ==
    IF p = "part_000" THEN "completed" ELSE DefaultConversionStatus

\* The insert into music_sheets answered; on success the form is reset.
handleSubmit_insert ==
    /\ submit.pc = "insert"
    /\ \E dbOk \in Oks :
        /\ IF dbOk
           THEN LET id == CHOOSE i \in FileIds :
                            /\ rows[i] = NoRow
                            /\ \A j \in FileIds : rows[j] = NoRow => i <= j
                IN /\ SetRows([rows EXCEPT ![id] =
                        Row(InsertedStatus(page), Null, NullPath, NullUrl,
                            submit.path)])
                   /\ formData' = [file |-> NoFile, midiFile |-> NoFile]
                   /\ effectsPending' = TRUE
                   /\ submit' = [submit EXCEPT !.pc = "done"]
           ELSE /\ submit' = IdleSubmit
                /\ UNCHANGED <<rows, observed, formData, effectsPending>>
        /\ Fault(~dbOk)
    /\ UNCHANGED <<page, isValidFile, validationMessage, osmdInstance, tasks,
                   selections, store, requests>>
    /\ UNCHANGED call
    /\ UNCHANGED dbVars
    /\ UNCHANGED hookVars

\* After a successful upload the page navigates to the library; the upload
\* page is mounted again for the next upload.
navigate ==
    /\ submit.pc = "done"
    /\ formData' = [file |-> NoFile, midiFile |-> NoFile]
    /\ isValidFile' = "null"
    /\ validationMessage' = ""
    /\ effectsPending' = FALSE
    /\ tasks' = {}
    /\ submit' = IdleSubmit
    /\ selections' = 0
    /\ UNCHANGED <<page, osmdInstance, rows, store, requests, observed, faults>>
    /\ UNCHANGED call
    /\ UNCHANGED dbVars
    /\ UNCHANGED hookVars

NextUpload ==
    \/ handleFileChange
    \/ handleFileChange_validated
    \/ handleFileChange_part000
    \/ handleFileChange_analysed
    \/ useEffect_file
    \/ removeFile
    \/ handleSubmit
    \/ handleSubmit_upload
    \/ handleSubmit_midi
    \/ handleSubmit_insert
    \/ navigate

SpecUpload == InitUpload /\ [][NextUpload]_vars

(***************************************************************************)
(* Properties of the upload page.                                          *)
(***************************************************************************)
\* C1: a row that is seen as completed was seen as processing before: the
\* status never goes from pending, or from no status, directly to completed.
C1_CompletedWasProcessing ==
    \A id \in FileIds :
        (rows[id] # NoRow /\ rows[id].conversion_status = "completed")
            => observed[id]

\* C6: for a file larger than the maximum the page ends with the file
\* marked invalid, and no row is ever created for it.
Settled == ~effectsPending /\ tasks = {}
C6_TooLargeIsRejected ==
    [][/\ (formData'.file # NoFile /\ formData'.file.size > MAX_FILE_SIZE
            /\ Settled') => isValidFile' = "false"
       /\ \A id \in FileIds :
            (rows[id] = NoRow /\ rows'[id] # NoRow)
                => submit.file.size <= MAX_FILE_SIZE]_vars

\* C10: the row a successful upload inserts is in state pending, so the
\* scan of convert-all for pending rows finds it.
C10_UploadCreatesPendingJob ==
    [][\A id \in FileIds :
        (rows[id] = NoRow /\ rows'[id] # NoRow)
            => /\ rows'[id].conversion_status = "pending"
               /\ id \in PendingFiles(rows')]_vars

(***************************************************************************)
(* Properties of the conversion services.                                  *)
(***************************************************************************)
Running(r) == requests[r].pc \in RunningPcs
StatusOf(t, id) == IF t[id] = NoRow THEN "absent" ELSE t[id].conversion_status
Terminal(st) == st \in {"completed", "failed"}

\* C2: at most one conversion of a file id is in flight at any time: two
\* requests never run processFile on the same file id together.
C2_OneConversionPerFile ==
    \A r1, r2 \in RequestIds :
        (r1 # r2 /\ Running(r1) /\ Running(r2))
            => requests[r1].fileId # requests[r2].fileId

\* C3: once the status of a row is completed or failed, no step changes it.
C3_TerminalStatusKept ==
    [][\A id \in FileIds :
        (Terminal(StatusOf(rows, id)) /\ rows'[id] # NoRow)
            => StatusOf(rows', id) = StatusOf(rows, id)]_vars

\* The step in which a conversion request for file id makes its first
\* status write (the Express route, or processFile of the edge function).
Resubmit(r, id) ==
    /\ requests[r].pc \in {"idle", "update"}
    /\ requests'[r].pc \in {"download", "markFailed"}
    /\ requests'[r].fileId = id

\* C4: a conversion request for a file whose job is failed leaves the
\* failed record untouched: its status and its error message stay.
C4_FailedRecordUntouched ==
    [][\A id \in FileIds : \A r \in RequestIds :
        (StatusOf(rows, id) = "failed" /\ Resubmit(r, id))
            => /\ StatusOf(rows', id) = "failed"
               /\ rows'[id].conversion_error = rows[id].conversion_error]_vars

\* C5: when a conversion run fails, the job is failed with a non-empty
\* error and no MEI artifact of that run is left in the store.
C5_FailedRunLeavesNoArtifact ==
    [][\A r \in RequestIds :
        (requests[r].outcome # "failed" /\ requests'[r].outcome = "failed")
            => /\ rows'[requests[r].fileId] # NoRow
                    => /\ StatusOf(rows', requests[r].fileId) = "failed"
                       /\ rows'[requests[r].fileId].conversion_error
                                \notin {Null, ""}
               /\ requests[r].artifact \notin store']_vars

\* C7: every job that enters processing eventually reaches completed or
\* failed (or its row is deleted).
C7_ProcessingEnds ==
    \A id \in FileIds :
        (StatusOf(rows, id) = "processing")
            ~> (StatusOf(rows, id) \in {"completed", "failed", "absent"})

\* C8: after the row of a file was deleted, a worker that is converting the
\* file uploads no MEI artifact for it.
C8_NoUploadAfterDelete ==
    [][\A r \in RequestIds :
        (requests[r].pc \in {"download", "upload"}
            /\ rows[requests[r].fileId] = NoRow)
            => (MeiKey(requests[r]) \in store'
                    => MeiKey(requests[r]) \in store)]_vars

\* C9: every handler of the single-file trigger answers success with
\* status processing after the status write and before the conversion of
\* the file has ended.
C9_TriggerAnswersWhileProcessing ==
    \A r \in RequestIds :
        (requests[r].kind \in {"express", "edgeSingle"}
            /\ requests[r].resp.code = 200)
            => /\ requests[r].resp.success
               /\ requests[r].resp.status = "processing"
               /\ requests[r].resp.sentAt = "started"

\* The run of request r wrote its row as completed and then failed to
\* remove its temporary directory.
CleanupFailed(r) ==
    /\ requests[r].pc = "markFailed"
    /\ requests[r].artifact # NullPath
    /\ requests[r].error = Err(FsErrorMsg, TRUE)

\* C11: a failure of the removal of the temporary directory, after the
\* artifact was uploaded and the row written as completed, never turns the
\* job into failed: the status, mei_url and the stored artifact are kept.
C11_CleanupFailureKeepsCompleted ==
    [][\A r \in RequestIds :
        (CleanupFailed(r) /\ StatusOf(rows, requests[r].fileId) = "completed")
            => /\ StatusOf(rows', requests[r].fileId) = "completed"
               /\ rows'[requests[r].fileId].mei_url
                    = rows[requests[r].fileId].mei_url
               /\ requests[r].artifact \in store']_vars

InitFunctions ==
    /\ rows = [id \in FileIds |-> UploadedRow(SourcePath(id))]
    /\ store = {SourcePath(id) : id \in FileIds}
    /\ requests = [r \in RequestIds |-> IdleRequest]
    /\ observed = [id \in FileIds |-> FALSE]
    /\ faults = 0
    /\ page = "Upload.tsx"
    /\ Mounted
    /\ call = NoCall
    /\ HookIdle
    /\ EmptyDb

\* The texts the detector is given: every set of matched patterns a text
\* can have.  A text that matches a bracketed chord (9) or a sequence of
\* chords (10) holds a chord name, which the chord pattern (8) matches.
DetectorTexts ==
    {t \in SUBSET (1..NumPatterns) : (9 \in t \/ 10 \in t) => 8 \in t}

Detect ==
    /\ call.fn = NoCall.fn
    /\ \E text \in DetectorTexts :
        call' = [fn |-> "isMusicSheetOrTab", arg |-> text,
                 result |-> isMusicSheetOrTab(text)]
    /\ UNCHANGED <<rows, store, requests, observed, faults>>
    /\ UNCHANGED upVars
    /\ UNCHANGED dbVars
    /\ UNCHANGED hookVars

\* LocalConversionService.validateSheet.  The content of a file is the set
\* of the start tags that occur in its decoded text; "note" is the tag
\* <note> and "note with attributes" a tag such as <note default-x="80">.
SheetTags == {"score-partwise", "score-timewise", "measure", "note",
              "note with attributes", "harmony", "chord", "figured-bass"}
SheetExts == {"xml", "musicxml", "mxl", "pdf"}
\* toolkit: the Verovio script was loaded; loads: toolkit.loadData succeeds
SheetInputs ==
    [ext : SheetExts, content : SUBSET SheetTags, toolkit : BOOLEAN,
     loads : BOOLEAN]

\* fileContent.includes('<score-partwise') || ... || includes('<note>')
hasScoreElements(content) ==
    content \cap {"score-partwise", "score-timewise", "measure", "note"} # {}
\* fileContent.includes('<harmony') || includes('<chord') || ...
hasChordElements(content) ==
    content \cap {"harmony", "chord", "figured-bass"} # {}

Unknown == [isValid |-> FALSE, type |-> "unknown"]

\* validateSheet that prefers chord when both kinds of element occur
validateSheetChordFirst(input) ==
    IF ~input.toolkit THEN Unknown
    ELSE IF input.ext \in {"xml", "musicxml", "mxl"}
    THEN IF ~input.loads THEN Unknown
         ELSE IF hasChordElements(input.content)
            THEN [isValid |-> TRUE, type |-> "chord"]
         ELSE IF hasScoreElements(input.content)
            THEN [isValid |-> TRUE, type |-> "score"]
         ELSE Unknown
    ELSE Unknown

validateSheet(input) ==
    IF ~input.toolkit THEN Unknown      \* ConversionError, caught
    ELSE IF input.ext \in {"xml", "musicxml", "mxl"}
    THEN IF ~input.loads THEN Unknown
         ELSE IF hasScoreElements(input.content)
                    /\ ~hasChordElements(input.content)
            THEN [isValid |-> TRUE, type |-> "score"]
         ELSE IF hasChordElements(input.content)
                    /\ ~hasScoreElements(input.content)
            THEN [isValid |-> TRUE, type |-> "chord"]
         ELSE IF hasScoreElements(input.content)
                    /\ hasChordElements(input.content)
            THEN [isValid |-> TRUE, type |-> "score"]
         ELSE Unknown
    ELSE Unknown

ValidateSheet ==
    /\ call.fn = NoCall.fn
    /\ \E input \in SheetInputs :
        call' = [fn |-> "validateSheet", arg |-> input,
                 result |-> validateSheet(input)]
    /\ UNCHANGED <<rows, store, requests, observed, faults>>
    /\ UNCHANGED upVars
    /\ UNCHANGED dbVars
    /\ UNCHANGED hookVars

\* The source files of a conversion: a MusicXML file (or a PDF) with its
\* number of measure elements, and the days on which a conversion runs.
Sources ==
    [fileName : {Path(<<>>, <<1, "a">>, e) : e \in {"xml", "musicxml", "mxl", "pdf"}},
     measures : 1..MaxMeasures]
Days == 1..MaxDays

\* processFile: the MEI document it writes.  The text is a fixed template
\* with one measure, into which the file name and the date of the run
\* (new Date().toISOString().substring(0, 10)) are put.
meiTemplate(fileName, today) ==
    [title |-> <<"Arquivo convertido de", fileName>>, isodate |-> today,
     measures |-> 1]

\* One conversion of a source file.
processFile_mei ==
    /\ call.fn = NoCall.fn
    /\ \E source \in Sources, today \in Days :
        call' = [fn |-> "processFile", arg |-> [source |-> source],
                 result |-> meiTemplate(source.fileName, today)]
    /\ UNCHANGED <<rows, store, requests, observed, faults>>
    /\ UNCHANGED upVars
    /\ UNCHANGED dbVars
    /\ UNCHANGED hookVars

\* Two conversions of the same source file, on any two days.
processFile_mei_twice ==
    /\ call.fn = NoCall.fn
    /\ \E source \in Sources, day1 \in Days, day2 \in Days :
        call' = [fn |-> "processFile twice", arg |-> [source |-> source],
                 result |-> <<meiTemplate(source.fileName, day1),
                              meiTemplate(source.fileName, day2)>>]
    /\ UNCHANGED <<rows, store, requests, observed, faults>>
    /\ UNCHANGED upVars
    /\ UNCHANGED dbVars
    /\ UNCHANGED hookVars

\* The requests the two processFile implementations are compared on: a
\* source path of one or of two folder levels and every extension.
RequestExts == {"pdf", "xml", "musicxml", "mxl", "svg", "png"}
RequestDirs == {<<UserId>>, <<UserId, "scores">>}
ConversionRequests ==
    {[fileId |-> id, filePath |-> Path(dirs, BaseOf(id), ext)] :
        id \in FileIds, dirs \in RequestDirs, ext \in RequestExts}

\* What a run of processFile without a failing external call leaves: the
\* status of the row, the key of the stored artifact and mei_url.
processFile(kind, request) ==
    LET req == Upd(IdleRequest, [kind |-> kind, fileId |-> request.fileId,
                                 filePath |-> request.filePath])
    IN  IF ConvertLocal(req, TRUE) # Err("", FALSE)
        THEN [status |-> "failed", artifact |-> NullPath,
              mei_url |-> NullPath]
        ELSE [status |-> "completed", artifact |-> MeiKey(req),
              mei_url |-> MeiKey(req)]

\* The same request given to the Express service and to the edge function.
processFile_both ==
    /\ call.fn = NoCall.fn
    /\ \E request \in ConversionRequests :
        call' = [fn |-> "processFile of both", arg |-> request,
                 result |-> [express |-> processFile("express", request),
                             edge |-> processFile("edgeSingle", request)]]
    /\ UNCHANGED <<rows, store, requests, observed, faults>>
    /\ UNCHANGED upVars
    /\ UNCHANGED dbVars
    /\ UNCHANGED hookVars

NextFunctions ==
    \/ Detect
    \/ ValidateSheet
    \/ processFile_mei
    \/ processFile_mei_twice
    \/ processFile_both

SpecFunctions == InitFunctions /\ [][NextFunctions]_vars

(***************************************************************************)
(* Properties of the pure functions.                                       *)
(***************************************************************************)
\* The categories of the patterns of the detector: time signature (1),
\* tempo and dynamics (2, 3), articulation vocabulary (4), tablature (5-7),
\* chord symbols (8-10), multilingual vocabulary (11).
PatternCategory(i) ==
    IF i = 1 THEN "time signature"
    ELSE IF i \in {2, 3} THEN "tempo/dynamics"
    ELSE IF i = 4 THEN "articulation"
    ELSE IF i \in 5..7 THEN "tablature"
    ELSE IF i \in 8..10 THEN "chord symbols"
    ELSE "multilingual"

\* C13: the detector classifies a text as music notation only if patterns
\* of at least two distinct categories match it.
C13_TwoCategoriesNeeded ==
    (call.fn = "isMusicSheetOrTab" /\ call.result)
        => Cardinality({PatternCategory(i) : i \in call.arg}) >= 2

\* The step in which the validation of the selected file t answers that
\* OCR or the rasterisation of the PDF failed.
OcrFailed(t) ==
    /\ t \in tasks
    /\ t.task = "validation"
    /\ tasks' = tasks \ {t}
    /\ validationMessage' = MsgOcrError
    /\ formData.file = t.file

\* C14: when OCR or the rasterisation fails for the selected file, the
\* file ends marked invalid, and before that outcome it was never marked
\* valid (the upload could not be submitted).
C14_OcrFailureNeverValid ==
    [][\A t \in tasks :
        OcrFailed(t) => /\ isValidFile # "true"
                        /\ isValidFile' = "false"]_vars

\* The classification the rule gives from the two facts S and C.
Classified(S, C) ==
    IF S THEN [isValid |-> TRUE, type |-> "score"]
    ELSE IF C THEN [isValid |-> TRUE, type |-> "chord"]
    ELSE Unknown

IsMusicXml(input) == input.ext \in {"xml", "musicxml", "mxl"}

\* C15 as stated: validateSheet classifies every MusicXML file from S = it
\* contains a score-partwise, score-timewise, measure or note element and
\* C = it contains a harmony, chord or figured-bass element.
C15_ClassifiedByElements ==
    (call.fn = "validateSheet" /\ IsMusicXml(call.arg))
        => call.result =
            Classified(call.arg.content \cap {"score-partwise",
                            "score-timewise", "measure", "note",
                            "note with attributes"} # {},
                       call.arg.content \cap {"harmony", "chord",
                            "figured-bass"} # {})

\* C15 as amended: when the toolkit is available and loads the file,
\* validateSheet classifies a MusicXML file from S = its text contains
\* <score-partwise, <score-timewise, <measure or <note> and C = its text
\* contains <harmony, <chord or <figured-bass; when the toolkit is not
\* available or does not load the file, the file is unknown (invalid).
C15_ClassifiedWhenLoaded ==
    (call.fn = "validateSheet" /\ IsMusicXml(call.arg))
        => IF call.arg.toolkit /\ call.arg.loads
           THEN call.result =
                Classified(\E e \in call.arg.content :
                                e \in {"score-partwise", "score-timewise",
                                       "measure", "note"},
                           \E e \in call.arg.content :
                                e \in {"harmony", "chord", "figured-bass"})
           ELSE call.result = Unknown

\* A loaded MusicXML file with score and chord elements was classified.
C15_Witness ==
    /\ call.fn = "validateSheet"
    /\ IsMusicXml(call.arg)
    /\ call.arg.toolkit /\ call.arg.loads
    /\ {"score-partwise", "harmony"} \subseteq call.arg.content
    /\ call.result = [isValid |-> TRUE, type |-> "score"]

\* The extensions the intake is to accept.
SupportedExtensions ==
    {"pdf", "xml", "musicxml", "mxl", "svg", "png", "jpg", "jpeg"}
FormatErrors == {"Formato nao suportado", "Tipo de arquivo nao suportado"}

\* C16: a file is accepted for conversion exactly when its extension is
\* in the supported set: no file with another extension gets a completed
\* job, and no file with a supported extension is rejected for its format
\* by a conversion service.
C16_SupportedExtensionsAccepted ==
    \A id \in FileIds :
        rows[id] # NoRow =>
            IF rows[id].file_url.ext \in SupportedExtensions
            THEN rows[id].conversion_error \notin FormatErrors
            ELSE rows[id].conversion_status # "completed"

\* C17: converting the same source file twice yields identical MEI bytes,
\* whatever the dates of the two runs are.
C17_ConversionIsIdempotent ==
    call.fn = "processFile twice" => call.result[1] = call.result[2]

\* C18: the MEI produced from a MusicXML file with n >= 1 measure elements
\* contains exactly n measure elements.
C18_MeasureCountKept ==
    (call.fn = "processFile"
        /\ call.arg.source.fileName.ext \in {"xml", "musicxml", "mxl"})
        => call.result.measures = call.arg.source.measures

\* '{userId}/{source file name without its extension}.mei', userId being
\* the owner folder of the source path.
ExpectedMeiKey(source) == Path(<<Head(source.dirs)>>, source.base, "mei")

\* C19: every completed row has mei_url equal to the key derived from its
\* source path, an object is stored under that key, and mei_public_url is
\* the public URL of that object; no row is completed with mei_url null.
C19_CompletedHasArtifact ==
    \A id \in FileIds :
        (rows[id] # NoRow /\ rows[id].conversion_status = "completed")
            => /\ rows[id].mei_url # NullPath
               /\ rows[id].mei_url = ExpectedMeiKey(rows[id].file_url)
               /\ rows[id].mei_url \in store
               /\ rows[id].mei_public_url = getPublicUrl(rows[id].mei_url)

\* C20: a convert-all invocation that finds no pending file changes no
\* job and answers with a message together with an empty results list.
C20_EmptyBatchAnswersEmptyList ==
    [][\A r \in RequestIds :
        (requests[r].pc = "idle"
            /\ requests'[r].kind = "edgeBatch"
            /\ requests'[r].resp.code = 200
            /\ requests'[r].fetched = <<>>)
            => /\ rows' = rows
               /\ requests'[r].resp.hasResults
               /\ requests'[r].results = <<>>]_vars

(***************************************************************************)
(* supabase_functions.sql: the rate limit of comments, likes and reports.  *)
(* Time is counted in ticks, TicksPerWindow of them making the time_window *)
(* of the action type; a stored time is kept as its age, now() minus the   *)
(* time, so that first_action_at < now() - time_window reads               *)
(* age > time_window.  The model does not carry ages beyond                *)
(* time_window + 1, nor last_action_at, which no statement reads.          *)
(***************************************************************************)
TicksPerWindow == 2

svcVars == <<rows, store, requests, observed, faults>>

ActionTypes == {"comment", "like", "report"}
RateLimitExceeded == "Rate limit exceeded"

\* CASE TG_ARGV[0] of check_rate_limit.
max_actions(type) ==
    CASE type = "comment" -> 10
      [] type = "like" -> 30
      [] type = "report" -> 5
      [] OTHER -> 20
time_window(type) == TicksPerWindow

\* The keys of rate_limits a behaviour is about: one user and one action
\* type, or two users who report.
RateKeySets ==
    {{<<UserId, type>>} : type \in ActionTypes}
        \cup {{<<UserId, "report">>, <<"u2", "report">>}}

Ages == 0..TicksPerWindow

InitRateLimit ==
    /\ rows = [id \in FileIds |-> NoRow]
    /\ store = {}
    /\ requests = [r \in RequestIds |-> IdleRequest]
    /\ observed = [id \in FileIds |-> FALSE]
    /\ faults = 0
    /\ page = "Upload.tsx"
    /\ Mounted
    /\ call = NoCall
    /\ HookIdle
    /\ \E keys \in RateKeySets :
        /\ rate_limits = [k \in keys |-> NoLimit]
        /\ accepted = [k \in keys |-> [d \in Ages |-> 0]]
    /\ playlist_items = {}
    /\ sheet_views = {}
    /\ sheet_downloads = {}
    /\ counts = <<>>
    /\ likes = {}
    /\ favorites = {}
    /\ now = 0

\* INSERT ... ON CONFLICT (user_id, action_type) DO UPDATE ... RETURNING
\* count, then the test of the count.  RAISE EXCEPTION aborts the
\* statement that fired the trigger, and the upsert with it.
check_rate_limit_expires_early(row, type) ==
    LET upserted ==
            IF row = NoLimit \/ row.age >= time_window(type)
            THEN [count |-> 1, age |-> 0]
            ELSE [count |-> row.count + 1, age |-> row.age]
    IN  IF upserted.count > max_actions(type)
        THEN [raised |-> TRUE, row |-> row]
        ELSE [raised |-> FALSE, row |-> upserted]

check_rate_limit_without_window(row, type) ==
    LET upserted ==
            IF row = NoLimit \/ row.age > 0
            THEN [count |-> 1, age |-> 0]
            ELSE [count |-> row.count + 1, age |-> row.age]
    IN  IF upserted.count > max_actions(type)
        THEN [raised |-> TRUE, row |-> row]
        ELSE [raised |-> FALSE, row |-> upserted]

check_rate_limit(row, type) ==
    LET upserted ==
            IF row = NoLimit \/ row.age > time_window(type)
            THEN [count |-> 1, age |-> 0]
            ELSE [count |-> row.count + 1, age |-> row.age]
    IN  IF upserted.count > max_actions(type)
        THEN [raised |-> TRUE, row |-> row]
        ELSE [raised |-> FALSE, row |-> upserted]

\* INSERT INTO comments, likes or reports by the user of key k: the
\* BEFORE INSERT trigger of the table runs check_rate_limit.
insert(k) ==
    LET checked == check_rate_limit(rate_limits[k], k[2])
    IN  /\ rate_limits' = [rate_limits EXCEPT ![k] = checked.row]
        /\ accepted' = IF checked.raised THEN accepted
                       ELSE [accepted EXCEPT ![k][0] = @ + 1]
        /\ call' = [fn |-> "insert", arg |-> k,
                    result |-> IF checked.raised THEN RateLimitExceeded
                               ELSE "inserted"]
        /\ UNCHANGED <<playlist_items, sheet_views, sheet_downloads, counts,
                       likes, favorites, now>>
        /\ UNCHANGED svcVars
        /\ UNCHANGED upVars
        /\ UNCHANGED hookVars

\* A tick of the clock: every stored time is one tick older.
Tick ==
    /\ rate_limits' =
        [k \in DOMAIN rate_limits |->
            IF rate_limits[k] = NoLimit THEN NoLimit
            ELSE [rate_limits[k] EXCEPT
                    !.age = IF @ > TicksPerWindow THEN @ ELSE @ + 1]]
    /\ accepted' =
        [k \in DOMAIN accepted |->
            [d \in Ages |-> IF d = 0 THEN 0 ELSE accepted[k][d - 1]]]
    /\ call' = NoCall
    /\ UNCHANGED <<playlist_items, sheet_views, sheet_downloads, counts,
                   likes, favorites, now>>
    /\ UNCHANGED svcVars
    /\ UNCHANGED upVars
    /\ UNCHANGED hookVars

NextRateLimit ==
    \/ \E k \in DOMAIN rate_limits : insert(k)
    \/ Tick

SpecRateLimit == InitRateLimit /\ [][NextRateLimit]_vars

\* Number of rows of the history h that were inserted at the ages lo..hi.
RECURSIVE AcceptedBetween(_, _, _)
AcceptedBetween(h, lo, hi) ==
    IF lo > hi THEN 0 ELSE h[lo] + AcceptedBetween(h, lo + 1, hi)

\* C21: counting from first_action_at, at most max_actions inserts of one
\* user and action type are accepted before the window has expired; the
\* next insert inside the window raises 'Rate limit exceeded' and inserts
\* nothing; the first insert after the window has expired is accepted and
\* restarts the count at 1.
C21_FixedWindowLimit ==
    [][\A k \in DOMAIN rate_limits :
        LET row == rate_limits[k]
            after == rate_limits'[k]
            inserts == call'.fn = "insert" /\ call'.arg = k
        IN  /\ (after # NoLimit /\ after.age <= time_window(k[2]))
                => /\ after.count <= max_actions(k[2])
                   /\ after.count = AcceptedBetween(accepted'[k], 0, after.age)
            /\ (inserts /\ row # NoLimit /\ row.age <= time_window(k[2])
                    /\ row.count = max_actions(k[2]))
                => /\ call'.result = RateLimitExceeded
                   /\ accepted' = accepted
                   /\ rate_limits' = rate_limits
            /\ (inserts /\ row # NoLimit /\ row.age > time_window(k[2]))
                => /\ call'.result = "inserted"
                   /\ after.count = 1
                   /\ accepted'[k][0] = accepted[k][0] + 1]_vars

\* An insert is refused in a window that was started after an earlier
\* window expired.
C21_Witness ==
    \E k \in DOMAIN rate_limits :
        /\ call.fn = "insert"
        /\ call.arg = k
        /\ call.result = RateLimitExceeded
        /\ rate_limits[k].count = max_actions(k[2])
        /\ \E d \in Ages : d > rate_limits[k].age /\ accepted[k][d] > 0

\* C22: in any time interval of length time_window, wherever it starts,
\* at most max_actions inserts of one user and action type are accepted.
\* The interval that ends now holds the ages below TicksPerWindow.
C22_AnyWindowLimit ==
    \A k \in DOMAIN rate_limits :
        AcceptedBetween(accepted[k], 0, TicksPerWindow - 1)
            <= max_actions(k[2])

\* C22, as the code has it: any time interval of length time_window, its
\* two ends included, holds at most 2 * max_actions - 1 accepted inserts
\* of one user and action type.
C22_TwoWindowsLimit ==
    \A k \in DOMAIN rate_limits :
        AcceptedBetween(accepted[k], 0, TicksPerWindow)
            <= 2 * max_actions(k[2]) - 1

\* An interval of length time_window that holds the inserts of two
\* windows, 2 * max_actions - 1 of them.
C22_Witness ==
    \E k \in DOMAIN rate_limits :
        AcceptedBetween(accepted[k], 0, TicksPerWindow)
            = 2 * max_actions(k[2]) - 1

(***************************************************************************)
(* supabase_functions.sql and PlaylistDetails.tsx: the items of one        *)
(* playlist of user u1.  A row of playlist_items is the record of its      *)
(* sheet_id and position; UNIQUE(playlist_id, sheet_id) makes the sheet    *)
(* name the row, as its id does.                                           *)
(***************************************************************************)
MaxItems == 3

Users == {UserId, "u2"}
PlaylistSheets == 1..MaxItems
NewPositions == (0 - 1)..(MaxItems + 2)
Unauthorized == "Unauthorized"
ItemNotFound == "Item not found in playlist"
DbError == "error"

InitPlaylist ==
    /\ rows = [id \in FileIds |-> NoRow]
    /\ store = {}
    /\ requests = [r \in RequestIds |-> IdleRequest]
    /\ observed = [id \in FileIds |-> FALSE]
    /\ faults = 0
    /\ page = "Upload.tsx"
    /\ Mounted
    /\ call = NoCall
    /\ HookIdle
    /\ EmptyDb

Max(S) == CHOOSE x \in S : \A y \in S : y <= x

\* UPDATE playlist_items SET position = position + by WHERE the position
\* is one of those of the set moved.
Shift(items, moved, by) ==
    {IF i.position \in moved THEN [i EXCEPT !.position = @ + by] ELSE i :
        i \in items}

\* update_playlist_positions, fired BEFORE INSERT OR DELETE for each row.
update_playlist_positions(items, op, row) ==
    IF op = "DELETE"
    THEN Shift(items, {q \in {i.position : i \in items} : q > row.position},
               0 - 1)
    ELSE Shift(items, {q \in {i.position : i \in items} : q >= row.position},
               1)

dbFrame ==
    UNCHANGED <<rate_limits, accepted, sheet_views, sheet_downloads, counts,
                likes, favorites, now>>

\* add_to_playlist(p_playlist_id, p_sheet_id) called by caller.  A sheet
\* that is in the playlist already violates UNIQUE(playlist_id, sheet_id)
\* and the statement is undone.
add_to_playlist(caller, sheet) ==
    LET next_position ==
            IF playlist_items = {} THEN 1
            ELSE Max({i.position : i \in playlist_items}) + 1
        new == [sheet_id |-> sheet, position |-> next_position]
        result ==
            IF caller # UserId THEN Unauthorized
            ELSE IF \E i \in playlist_items : i.sheet_id = sheet THEN DbError
            ELSE "ok"
    IN  /\ playlist_items' =
            IF result = "ok"
            THEN update_playlist_positions(playlist_items, "INSERT", new)
                    \cup {new}
            ELSE playlist_items
        /\ call' = [fn |-> "add_to_playlist", arg |-> <<caller, sheet>>,
                    result |-> result]
        /\ dbFrame
        /\ UNCHANGED svcVars
        /\ UNCHANGED upVars
        /\ UNCHANGED hookVars

\* DELETE FROM playlist_items of the rows the statement selects, the
\* trigger running before each row is deleted.
DeleteItems(items, sheet) ==
    LET old == {i \in items : i.sheet_id = sheet}
    IN  IF old = {} THEN items
        ELSE LET row == CHOOSE i \in old : TRUE
             IN  update_playlist_positions(items \ {row}, "DELETE", row)

\* remove_from_playlist(p_playlist_id, p_sheet_id) called by caller.
remove_from_playlist(caller, sheet) ==
    /\ playlist_items' =
        IF caller # UserId THEN playlist_items
        ELSE DeleteItems(playlist_items, sheet)
    /\ call' = [fn |-> "remove_from_playlist", arg |-> <<caller, sheet>>,
                result |-> IF caller # UserId THEN Unauthorized ELSE "ok"]
    /\ dbFrame
    /\ UNCHANGED svcVars
    /\ UNCHANGED upVars
    /\ UNCHANGED hookVars

\* PlaylistDetails.tsx: handleRemoveItem of an item the page shows, the
\* user having confirmed.
handleRemoveItem(sheet) ==
    /\ \E i \in playlist_items : i.sheet_id = sheet
    /\ playlist_items' = DeleteItems(playlist_items, sheet)
    /\ call' = [fn |-> "handleRemoveItem", arg |-> <<UserId, sheet>>,
                result |-> "ok"]
    /\ dbFrame
    /\ UNCHANGED svcVars
    /\ UNCHANGED upVars
    /\ UNCHANGED hookVars

\* reorder_playlist_items(p_playlist_id, p_sheet_id, p_new_position).
reorder_playlist_items(caller, sheet, p_new_position) ==
    LET found == {i \in playlist_items : i.sheet_id = sheet}
        current_position == (CHOOSE i \in found : TRUE).position
        positions == {i.position : i \in playlist_items}
        shifted ==
            IF p_new_position > current_position
            THEN Shift(playlist_items,
                       {q \in positions :
                            q > current_position /\ q <= p_new_position},
                       0 - 1)
            ELSE Shift(playlist_items,
                       {q \in positions :
                            q >= p_new_position /\ q < current_position}, 1)
        result ==
            IF caller # UserId THEN Unauthorized
            ELSE IF found = {} THEN ItemNotFound
            ELSE "ok"
    IN  /\ playlist_items' =
            IF result = "ok"
            THEN {IF i.sheet_id = sheet
                  THEN [i EXCEPT !.position = p_new_position] ELSE i :
                    i \in shifted}
            ELSE playlist_items
        /\ call' = [fn |-> "reorder_playlist_items",
                    arg |-> <<caller, sheet, p_new_position>>,
                    result |-> result]
        /\ dbFrame
        /\ UNCHANGED svcVars
        /\ UNCHANGED upVars
        /\ UNCHANGED hookVars

\* PlaylistDetails.tsx: handleReorderItems(reorderedItems).  The upsert
\* sends rows of id and position only: the insert it starts with gives a
\* value to the identity column id, GENERATED ALWAYS, and names no
\* playlist, so the statement is refused and no row changes; the page
\* shows the error.
handleReorderItems ==
    /\ playlist_items # {}
    /\ playlist_items' = playlist_items
    /\ call' = [fn |-> "handleReorderItems", arg |-> <<UserId>>,
                result |-> DbError]
    /\ dbFrame
    /\ UNCHANGED svcVars
    /\ UNCHANGED upVars
    /\ UNCHANGED hookVars

NextPlaylist ==
    \/ \E caller \in Users, sheet \in PlaylistSheets :
        add_to_playlist(caller, sheet)
    \/ \E caller \in Users, sheet \in PlaylistSheets :
        remove_from_playlist(caller, sheet)
    \/ \E sheet \in PlaylistSheets : handleRemoveItem(sheet)
    \/ \E caller \in Users, sheet \in PlaylistSheets, p \in NewPositions :
        reorder_playlist_items(caller, sheet, p)
    \/ handleReorderItems

SpecPlaylist == InitPlaylist /\ [][NextPlaylist]_vars

PositionOf(items, sheet) ==
    (CHOOSE i \in items : i.sheet_id = sheet).position
SheetsOf(items) == {i.sheet_id : i \in items}

\* C23: after any sequence of add, remove and reorder operations by the
\* owner, with any integer p_new_position, the positions of the playlist
\* are exactly 1..n, without duplicates or gaps; only add and remove
\* change the set of items; reorder moves the named item to
\* p_new_position and keeps the relative order of the other items.
C23_PositionsAreOneToN ==
    [][/\ {i.position : i \in playlist_items'}
            = 1..Cardinality(SheetsOf(playlist_items'))
       /\ Cardinality(playlist_items')
            = Cardinality(SheetsOf(playlist_items'))
       /\ call'.fn \notin {"add_to_playlist", "remove_from_playlist",
                           "handleRemoveItem"}
            => SheetsOf(playlist_items') = SheetsOf(playlist_items)
       /\ (call'.fn = "reorder_playlist_items" /\ call'.result = "ok")
            => LET sheet == call'.arg[2]
                   others == SheetsOf(playlist_items) \ {sheet}
               IN  /\ PositionOf(playlist_items', sheet) = call'.arg[3]
                   /\ \A a, b \in others :
                        PositionOf(playlist_items, a)
                            < PositionOf(playlist_items, b)
                        <=> PositionOf(playlist_items', a)
                            < PositionOf(playlist_items', b)]_vars

(***************************************************************************)
(* functions.sql and additional_functions.sql: the views and downloads of  *)
(* the sheets and the counters the triggers keep in music_sheets.          *)
(***************************************************************************)
MaxTicks == 1

Times == 0..MaxTicks
NewCounts == [views_count |-> 0, downloads_count |-> 0]

InitCounts ==
    /\ rows = [id \in FileIds |-> NoRow]
    /\ store = {}
    /\ requests = [r \in RequestIds |-> IdleRequest]
    /\ observed = [id \in FileIds |-> FALSE]
    /\ faults = 0
    /\ page = "Upload.tsx"
    /\ Mounted
    /\ call = NoCall
    /\ HookIdle
    /\ rate_limits = NoLimit
    /\ accepted = <<>>
    /\ playlist_items = {}
    /\ sheet_views = {}
    /\ sheet_downloads = {}
    /\ counts = [id \in FileIds |-> NewCounts]
    /\ likes = {}
    /\ favorites = {}
    /\ now = 0

\* update_sheet_counts, fired AFTER INSERT for each row of sheet_views and
\* of sheet_downloads.
update_sheet_counts_of_views_only(c, table, new) ==
    [c EXCEPT ![new.sheet_id].views_count = @ + 1]

update_sheet_counts(c, table, new) ==
    IF table = "sheet_views"
    THEN [c EXCEPT ![new.sheet_id].views_count = @ + 1]
    ELSE IF table = "sheet_downloads"
    THEN [c EXCEPT ![new.sheet_id].downloads_count = @ + 1]
    ELSE c

\* INSERT of a row of sheet_views or sheet_downloads: the sheet must exist
\* (REFERENCES music_sheets) and the row be new (UNIQUE(sheet_id, user_id,
\* viewed_at), the time being now()).
InsertResult(table, new) ==
    IF counts[new.sheet_id] = NoRow \/ new \in table THEN DbError ELSE "ok"

\* record_sheet_view(p_sheet_id, p_view_duration) called by caller.
record_sheet_view(caller, sheet) ==
    LET new == [sheet_id |-> sheet, user_id |-> caller, at |-> now]
        result == InsertResult(sheet_views, new)
    IN  /\ sheet_views' =
            IF result = "ok" THEN sheet_views \cup {new} ELSE sheet_views
        /\ counts' =
            IF result = "ok" THEN update_sheet_counts(counts, "sheet_views", new)
            ELSE counts
        /\ call' = [fn |-> "record_sheet_view", arg |-> sheet,
                    result |-> result]
        /\ UNCHANGED <<rate_limits, accepted, playlist_items,
                       sheet_downloads, likes, favorites, now>>
        /\ UNCHANGED svcVars
        /\ UNCHANGED upVars
        /\ UNCHANGED hookVars

\* record_sheet_download(p_sheet_id) called by caller.
record_sheet_download(caller, sheet) ==
    LET new == [sheet_id |-> sheet, user_id |-> caller, at |-> now]
        result == InsertResult(sheet_downloads, new)
    IN  /\ sheet_downloads' =
            IF result = "ok" THEN sheet_downloads \cup {new}
            ELSE sheet_downloads
        /\ counts' =
            IF result = "ok"
            THEN update_sheet_counts(counts, "sheet_downloads", new)
            ELSE counts
        /\ call' = [fn |-> "record_sheet_download", arg |-> sheet,
                    result |-> result]
        /\ UNCHANGED <<rate_limits, accepted, playlist_items, sheet_views,
                       likes, favorites, now>>
        /\ UNCHANGED svcVars
        /\ UNCHANGED upVars
        /\ UNCHANGED hookVars

\* Library.tsx: the delete of a music_sheets row; its views and downloads
\* go with it (on delete cascade).
DeleteSheetRow(sheet) ==
    /\ counts[sheet] # NoRow
    /\ counts' = [counts EXCEPT ![sheet] = NoRow]
    /\ sheet_views' = {v \in sheet_views : v.sheet_id # sheet}
    /\ sheet_downloads' = {d \in sheet_downloads : d.sheet_id # sheet}
    /\ call' = [fn |-> "delete", arg |-> sheet, result |-> "ok"]
    /\ UNCHANGED <<rate_limits, accepted, playlist_items, likes, favorites,
                   now>>
    /\ UNCHANGED svcVars
    /\ UNCHANGED upVars
    /\ UNCHANGED hookVars

\* The clock of the database moves on.
TickCounts ==
    /\ now < MaxTicks
    /\ now' = now + 1
    /\ call' = NoCall
    /\ UNCHANGED <<rate_limits, accepted, playlist_items, sheet_views,
                   sheet_downloads, counts, likes, favorites>>
    /\ UNCHANGED svcVars
    /\ UNCHANGED upVars
    /\ UNCHANGED hookVars

NextCounts ==
    \/ \E sheet \in FileIds : record_sheet_view(UserId, sheet)
    \/ \E sheet \in FileIds : record_sheet_download(UserId, sheet)
    \/ \E sheet \in FileIds : DeleteSheetRow(sheet)
    \/ TickCounts

SpecCounts == InitCounts /\ [][NextCounts]_vars

RowsOf(table, sheet) == Cardinality({x \in table : x.sheet_id = sheet})

\* C24: views_count of every sheet is the number of its sheet_views rows
\* and downloads_count the number of its sheet_downloads rows; recording
\* a view leaves downloads_count and the counters of the other sheets
\* unchanged, and recording a download leaves views_count and the
\* counters of the other sheets unchanged.
C24_CountersMatchRows ==
    [][/\ \A id \in FileIds :
            counts'[id] # NoRow
                => /\ counts'[id].views_count = RowsOf(sheet_views', id)
                   /\ counts'[id].downloads_count
                        = RowsOf(sheet_downloads', id)
       /\ call'.fn = "record_sheet_view"
            => /\ \A id \in FileIds \ {call'.arg} : counts'[id] = counts[id]
               /\ counts[call'.arg] # NoRow
                    => counts'[call'.arg].downloads_count
                        = counts[call'.arg].downloads_count
       /\ call'.fn = "record_sheet_download"
            => /\ \A id \in FileIds \ {call'.arg} : counts'[id] = counts[id]
               /\ counts[call'.arg] # NoRow
                    => counts'[call'.arg].views_count
                        = counts[call'.arg].views_count]_vars

\* A sheet with two views and a download next to a sheet with other
\* counters, a download having just been recorded.
C24_Witness ==
    /\ call.fn = "record_sheet_download"
    /\ call.result = "ok"
    /\ \E a, b \in FileIds :
        /\ counts[a] # NoRow
        /\ counts[b] # NoRow
        /\ counts[a].views_count = 2
        /\ counts[a].downloads_count = 1
        /\ counts[b].views_count = 1

(***************************************************************************)
(* functions.sql: likes and favorites.  A row is the record of its user_id *)
(* and sheet_id.                                                           *)
(***************************************************************************)
InitLikes ==
    /\ rows = [id \in FileIds |-> NoRow]
    /\ store = {}
    /\ requests = [r \in RequestIds |-> IdleRequest]
    /\ observed = [id \in FileIds |-> FALSE]
    /\ faults = 0
    /\ page = "Upload.tsx"
    /\ Mounted
    /\ call = NoCall
    /\ HookIdle
    /\ EmptyDb

Mark(user, sheet) == [user_id |-> user, sheet_id |-> sheet]

\* like_sheet(sheet_id) called by caller.
like_sheet(caller, sheet) ==
    /\ likes' = likes \cup {Mark(caller, sheet)}
    /\ call' = [fn |-> "like_sheet", arg |-> <<caller, sheet>>,
                result |-> "ok"]
    /\ UNCHANGED <<rate_limits, accepted, playlist_items, sheet_views,
                   sheet_downloads, counts, favorites, now>>
    /\ UNCHANGED svcVars
    /\ UNCHANGED upVars
    /\ UNCHANGED hookVars

\* favorite_sheet(sheet_id) called by caller.
favorite_sheet(caller, sheet) ==
    /\ favorites' = favorites \cup {Mark(caller, sheet)}
    /\ call' = [fn |-> "favorite_sheet", arg |-> <<caller, sheet>>,
                result |-> "ok"]
    /\ UNCHANGED <<rate_limits, accepted, playlist_items, sheet_views,
                   sheet_downloads, counts, likes, now>>
    /\ UNCHANGED svcVars
    /\ UNCHANGED upVars
    /\ UNCHANGED hookVars

\* DELETE FROM t WHERE user_id = auth.uid() AND sheet_id = sheet_id, in a
\* function whose parameter is named sheet_id as the column is.  What the
\* second sheet_id names is decided by plpgsql.variable_conflict: with
\* error, the default, the statement is refused as ambiguous; with
\* use_variable the test compares the parameter with itself and with
\* use_column the column with itself, and both hold for every row.
VariableConflict == {"error", "use_variable", "use_column"}
AmbiguousColumn == "column reference is ambiguous"

DeleteOwn(t, caller, sheet, conflict) ==
    IF conflict = "error" THEN t
    ELSE {x \in t : ~(x.user_id = caller /\ x.sheet_id = x.sheet_id)}

\* unlike_sheet(sheet_id) called by caller.
unlike_sheet(caller, sheet) ==
    \E conflict \in VariableConflict :
        /\ likes' = DeleteOwn(likes, caller, sheet, conflict)
        /\ call' = [fn |-> "unlike_sheet", arg |-> <<caller, sheet>>,
                    result |-> IF conflict = "error" THEN AmbiguousColumn
                               ELSE "ok"]
        /\ UNCHANGED <<rate_limits, accepted, playlist_items, sheet_views,
                       sheet_downloads, counts, favorites, now>>
        /\ UNCHANGED svcVars
        /\ UNCHANGED upVars
        /\ UNCHANGED hookVars

\* unfavorite_sheet(sheet_id) called by caller.
unfavorite_sheet(caller, sheet) ==
    \E conflict \in VariableConflict :
        /\ favorites' = DeleteOwn(favorites, caller, sheet, conflict)
        /\ call' = [fn |-> "unfavorite_sheet", arg |-> <<caller, sheet>>,
                    result |-> IF conflict = "error" THEN AmbiguousColumn
                               ELSE "ok"]
        /\ UNCHANGED <<rate_limits, accepted, playlist_items, sheet_views,
                       sheet_downloads, counts, likes, now>>
        /\ UNCHANGED svcVars
        /\ UNCHANGED upVars
        /\ UNCHANGED hookVars

NextLikes ==
    \E caller \in Users, sheet \in FileIds :
        \/ like_sheet(caller, sheet)
        \/ favorite_sheet(caller, sheet)
        \/ unlike_sheet(caller, sheet)
        \/ unfavorite_sheet(caller, sheet)

SpecLikes == InitLikes /\ [][NextLikes]_vars

\* C25: unlike_sheet(s) removes the caller's like on s and no other row,
\* unfavorite_sheet(s) the caller's favorite on s and no other row; the
\* likes and favorites of other users and on other sheets stay as they
\* are, and the call succeeds when the row exists.
C25_OnlyOwnMarkRemoved ==
    [][/\ call'.fn = "unlike_sheet"
            => /\ likes' = likes \ {Mark(call'.arg[1], call'.arg[2])}
               /\ favorites' = favorites
               /\ Mark(call'.arg[1], call'.arg[2]) \in likes
                    => call'.result = "ok"
       /\ call'.fn = "unfavorite_sheet"
            => /\ favorites' = favorites \ {Mark(call'.arg[1], call'.arg[2])}
               /\ likes' = likes
               /\ Mark(call'.arg[1], call'.arg[2]) \in favorites
                    => call'.result = "ok"]_vars

(***************************************************************************)
(* The conversion services again.                                          *)
(***************************************************************************)
\* Request r is a convert-all invocation that answers with its result
\* list in this step.
BatchReturns(r) ==
    /\ requests[r].pc # "done"
    /\ requests'[r].pc = "done"
    /\ requests'[r].kind = "edgeBatch"
    /\ requests'[r].resp.hasResults

\* No other request has been made.
RunsAlone(r) == \A q \in RequestIds \ {r} : requests'[q].pc = "idle"

\* C26: when a convert-all invocation returns its result list, every file
\* it fetched is terminal: a file reported with success true is completed
\* and a file reported with success false is failed with the reported
\* error in conversion_error; the invocation leaves no fetched file
\* pending or processing.  Stated of an invocation that runs alone and of
\* the files that still have a row, so that only its own writes count.
C26_BatchLeavesFilesTerminal ==
    [][\A r \in RequestIds :
        (BatchReturns(r) /\ RunsAlone(r))
            => \A i \in DOMAIN requests'[r].results :
                LET result == requests'[r].results[i]
                    row == rows'[result.fileId]
                IN  row # NoRow
                    => /\ result.success
                            => row.conversion_status = "completed"
                       /\ ~result.success
                            => /\ row.conversion_status = "failed"
                               /\ row.conversion_error = result.error]_vars

\* Request r is answered in this step with the given code, at the write
\* of the status processing or before it.
RejectedWith(r, code) ==
    /\ requests'[r].resp.code = code
    /\ \/ requests[r].pc = "idle"
       \/ requests[r].pc = "update" /\ requests[r].kind = "edgeSingle"

C28_ErrorMatchesStatus ==
    \A id \in FileIds :
        rows[id] # NoRow
            => /\ rows[id].conversion_status = "completed"
                    => rows[id].conversion_error \in {Null, ""}
               /\ rows[id].conversion_status = "failed"
                    => rows[id].conversion_error \notin {Null, ""}

(***************************************************************************)
(* hooks/useUpload.ts: uploadFile, next to handleSubmit of the upload      *)
(* page.  uploadFile stores in the bucket sheets.                          *)
(***************************************************************************)
\* The files uploadFile is called with.
HookFiles == {f \in Files : f.size <= MAX_FILE_SIZE
                            /\ f.ext \in {"pdf", "musicxml"}}

\* `${userId}/${file.name}`
OriginalPath(file) == Path(<<UserId>>, <<file.name>>, file.ext)
\* `${userId}/${file.name.replace(/\.[^/.]+$/, '')}.mei`
MeiPath(file) == Path(<<UserId>>, <<file.name>>, "mei")

hookFrame ==
    /\ UNCHANGED svcVars
    /\ UNCHANGED upVars
    /\ UNCHANGED call
    /\ UNCHANGED dbVars

\* uploadFile(file, userId) up to its await of convertToMEI.
uploadFile ==
    /\ uploading.pc \in {"idle", "done"}
    /\ \E file \in HookFiles :
        uploading' = [pc |-> "convert", file |-> file, result |-> "none"]
    /\ UNCHANGED sheets
    /\ hookFrame

\* convertToMEI answered: the MEI text, or 'Erro na conversao para MEI'.
uploadFile_converted ==
    /\ uploading.pc = "convert"
    /\ \E convertOk \in Oks :
        /\ uploading' =
            IF convertOk THEN [uploading EXCEPT !.pc = "original"]
            ELSE [uploading EXCEPT !.pc = "done", !.result = "null"]
        /\ faults' = IF convertOk THEN faults ELSE faults + 1
    /\ UNCHANGED <<sheets, rows, store, requests, observed>>
    /\ UNCHANGED upVars
    /\ UNCHANGED call
    /\ UNCHANGED dbVars

\* storage.upload of the original file answered (upsert: false).
uploadFile_original ==
    /\ uploading.pc = "original"
    /\ \E storageOk \in Oks :
        LET filePath == OriginalPath(uploading.file)
        IN  /\ IF storageOk /\ filePath \notin sheets
               THEN /\ sheets' = sheets \cup {filePath}
                    /\ uploading' = [uploading EXCEPT !.pc = "mei"]
               ELSE /\ uploading' = [uploading EXCEPT !.pc = "done",
                                                      !.result = "null"]
                    /\ UNCHANGED sheets
            /\ faults' = IF storageOk THEN faults ELSE faults + 1
    /\ UNCHANGED <<rows, store, requests, observed>>
    /\ UNCHANGED upVars
    /\ UNCHANGED call
    /\ UNCHANGED dbVars

\* storage.upload of the MEI text answered (upsert: false); the catch
\* sets the error and returns null.
uploadFile_mei ==
    /\ uploading.pc = "mei"
    /\ \E storageOk \in Oks :
        LET meiPath == MeiPath(uploading.file)
        IN  /\ IF storageOk /\ meiPath \notin sheets
               THEN /\ sheets' = sheets \cup {meiPath}
                    /\ uploading' = [uploading EXCEPT !.pc = "done",
                                                      !.result = "paths"]
               ELSE /\ uploading' = [uploading EXCEPT !.pc = "done",
                                                      !.result = "null"]
                    /\ UNCHANGED sheets
            /\ faults' = IF storageOk THEN faults ELSE faults + 1
    /\ UNCHANGED <<rows, store, requests, observed>>
    /\ UNCHANGED upVars
    /\ UNCHANGED call
    /\ UNCHANGED dbVars

\* The upload page with a PDF selected and accepted, in each revision
\* (part_000 also takes a MIDI file), and the hook before any call.
InitSubmit ==
    /\ rows = [id \in FileIds |-> NoRow]
    /\ store = {}
    /\ requests = [r \in RequestIds |-> IdleRequest]
    /\ observed = [id \in FileIds |-> FALSE]
    /\ faults = 0
    /\ page \in PageNames
    /\ \E file \in {f \in Files : f.ext = "pdf" /\ f.size <= MAX_FILE_SIZE} :
        \E midiFile \in IF page = "part_000" THEN {NoFile, file}
                        ELSE {NoFile} :
            /\ formData = [file |-> file, midiFile |-> midiFile]
            /\ selections = IF midiFile = NoFile THEN 1 ELSE 2
    /\ isValidFile = "true"
    /\ validationMessage = MsgPdfAccepted
    /\ osmdInstance = FALSE
    /\ effectsPending = FALSE
    /\ tasks = {}
    /\ submit = IdleSubmit
    /\ call = NoCall
    /\ HookIdle
    /\ EmptyDb

NextSubmit ==
    \/ handleSubmit
    \/ handleSubmit_upload
    \/ handleSubmit_midi
    \/ handleSubmit_insert
    \/ navigate
    \/ uploadFile
    \/ uploadFile_converted
    \/ uploadFile_original
    \/ uploadFile_mei

SpecSubmit == InitSubmit /\ [][NextSubmit]_vars

\* handleSubmit ends in this step, with the form reset or with an error.
SubmitEnds == Loading /\ submit'.pc \in {"idle", "done"}

\* C29: an upload is all or nothing between the storage and the database.
\* When handleSubmit ends, with success or with any error, each object it
\* stored exists exactly if a row that references it was inserted;
\* uploadFile of useUpload stores nothing when the conversion to MEI fails
\* and leaves no original file stored when the upload of the MEI fails.
C29_UploadIsAllOrNothing ==
    [][/\ SubmitEnds
            => (submit.path \in store'
                <=> \E id \in FileIds :
                        /\ rows[id] = NoRow
                        /\ rows'[id] # NoRow
                        /\ rows'[id].file_url = submit.path)
       /\ (uploading.pc = "convert" /\ uploading'.result = "null")
            => sheets' = sheets
       /\ (uploading.pc = "mei" /\ uploading'.result = "null")
            => OriginalPath(uploading.file) \notin sheets']_vars

\* C30: the Express processFile and the edge processFile are equivalent
\* on the same request: for every file id, source path (of one or more
\* folder levels) and extension they end in the same status, store the
\* artifact under the same key and write the same mei_url.
C30_ImplementationsAgree ==
    call.fn = "processFile of both" => call.result.express = call.result.edge

====
